---- MODULE Spec2Model ----
(***************************************************************************)
(* Montime host agent: token resolution, environment detection, and the    *)
(* sample / send / retry / sleep loop, for the four agent.py files of the  *)
(* repository.                                                             *)
(*                                                                         *)
(* Python str values that the code only passes around (tokens, provider    *)
(* names, exception class names) are TLA+ strings, with "None" for None.   *)
(* Python str values that the code cuts up (release-file values, metadata  *)
(* bodies, instance types) are sequences of tokens, with NoText for None.  *)
(***************************************************************************)
EXTENDS Integers, Sequences, FiniteSets, TLC

\* ------------------------------------------------------------------------
\* Program constants
\* ------------------------------------------------------------------------
INTERVAL == 60
MAX_RETRIES == 3
RETRY_DELAY == 5

\* ------------------------------------------------------------------------
\* Bounds of the model
\* ------------------------------------------------------------------------
MaxCycles == 2

\* ------------------------------------------------------------------------
\* The agent files
\* ------------------------------------------------------------------------
V100 == "agent.py"
V110a == "agents/v.1.1.0/agent.py"
V110b == "agents/v1.1.0/agent.py"
V120 == "agents/v1.2.0/agent.py"
Versions == {V100, V110a, V110b, V120}

\* the file resolves the token at import time, from the environment or config.json
HasConfigToken(v) == v \in {V110b, V120}
\* the file detects the operating system
HasOsDetection(v) == v \in {V110a, V110b, V120}
\* the file detects the cloud environment
HasCloudDetection(v) == v = V120
\* the retry loop tests attempt < MAX_RETRIES before it sleeps
HasGuardedDelay(v) == v \in {V100, V110a}

None == "None"
NoText == <<"None">>

\* Python truth value of an Optional[str]
Truthy(s) == s # None /\ s # ""
TruthyText(t) == t # NoText /\ t # <<>>

VARIABLES
  version,          \* the agent file that runs
  pc,               \* where the process is
  exitStatus,       \* process exit status, NoExit while it runs
  stopLogged,       \* the "Agent stopped" line was logged
  environ,          \* the SERVER_TOKEN environment variable
  configFile,       \* config.json
  SERVER_TOKEN,     \* the resolved token
  probeLog,         \* probes issued by the detect_cloud_provider call, with their responses
  CLOUD_PROVIDER,
  provider_source,  \* second component of detect_cloud_provider's result
  INSTANCE_TYPE,
  DETECTION_SOURCE,
  metadataLookups,  \* number of instance-type metadata requests issued
  environmentInits, \* number of initialize_environment calls that have returned
  instanceLog,      \* what the instance-type detection just got: the response of its
                    \* metadata request and psutil's report to the heuristic
  hostSeen,         \* the host as detect_os found it when it read the platform sources
  readingSeen,      \* what psutil and the ping reported in the current cycle
  os_cache,         \* _os_cache / _detected_os_cache
  osDetections,     \* number of times the platform sources were read
  cycle,            \* number of the current cycle of the main loop, 0 before the loop
  intervalSleeps,   \* number of time.sleep(INTERVAL) calls started
  sample,           \* the sample of the current cycle
  payload,          \* the payload built by the send_metrics call
  attempt,          \* loop variable of send_metrics
  posts,            \* the requests.post calls of the send_metrics call, with their responses
  delays,           \* number of time.sleep(RETRY_DELAY) calls of the send_metrics call
  sleeping,         \* duration of the sleep in progress, 0 when none
  outcome,          \* how the send_metrics call ended
  retval,           \* what the send_metrics call returned to main
  cycleError        \* main's except Exception handler ran in this cycle

vars == <<version, pc, exitStatus, stopLogged, environ, configFile, SERVER_TOKEN,
          probeLog, CLOUD_PROVIDER, provider_source, INSTANCE_TYPE, DETECTION_SOURCE, metadataLookups,
          os_cache, osDetections, cycle, intervalSleeps, sample, payload, attempt,
          posts, delays, sleeping, outcome, retval, cycleError,
          environmentInits, instanceLog, hostSeen, readingSeen>>

\* nothing logged by the instance-type detection
NoInstanceLog == [lookup |-> <<>>, psutil |-> <<>>]

NoExit == 0 - 1

\* ------------------------------------------------------------------------
\* The host: what the process finds when it asks
\* ------------------------------------------------------------------------
\* os.getenv("SERVER_TOKEN"): unset, set to the empty string, set to a token
EnvValues == {None, "", "env-token"}

\* config.json: missing, not JSON, JSON without api_key, api_key "", api_key a token
ConfigFiles == {"missing", "malformed", "no-key", "empty-key", "key"}

Init ==
  /\ version \in Versions
  /\ pc = "import"
  /\ exitStatus = NoExit
  /\ stopLogged = FALSE
  /\ environ \in EnvValues
  /\ configFile \in ConfigFiles
  /\ SERVER_TOKEN = None
  /\ probeLog = <<>>
  /\ CLOUD_PROVIDER = None
  /\ provider_source = None
  /\ INSTANCE_TYPE = NoText
  /\ DETECTION_SOURCE = None
  /\ metadataLookups = 0
  /\ os_cache = <<>>
  /\ osDetections = 0
  /\ cycle = 0
  /\ intervalSleeps = 0
  /\ sample = <<>>
  /\ payload = <<>>
  /\ attempt = 0
  /\ posts = <<>>
  /\ delays = 0
  /\ sleeping = 0
  /\ outcome = None
  /\ retval = None
  /\ cycleError = FALSE
  /\ environmentInits = 0
  /\ instanceLog = NoInstanceLog
  /\ hostSeen = <<>>
  /\ readingSeen = <<>>

\* ------------------------------------------------------------------------
\* Token resolution
\* ------------------------------------------------------------------------
\* load_config_token(): json.load(f).get("api_key"), None on any exception
load_config_token(file) ==
  CASE file = "missing" -> None
    [] file = "malformed" -> None
    [] file = "no-key" -> None
    [] file = "empty-key" -> ""
    [] file = "key" -> "config-token"

\* (mutant) `b or a`: the second operand is preferred
PyOr_SecondFirst(a, b) == IF Truthy(b) THEN b ELSE a

\* Python's `a or b` on Optional[str]
PyOr(a, b) == IF Truthy(a) THEN a ELSE b

\* the module-level assignment of SERVER_TOKEN
ResolveToken(v, env, file) ==
  IF HasConfigToken(v) THEN PyOr(env, load_config_token(file)) ELSE env

\* (mutant) the check tests for None only, and lets an empty token through
TokenMissing_NoneOnly(token) == token = None

\* `if not SERVER_TOKEN: ... sys.exit(1)`
TokenMissing(token) == ~Truthy(token)

\* (mutant) the loop is entered without initialize_environment
AfterStartup_SkipsEnvironment(v) == "sample"

\* the state main's first statement after the token check leads to
AfterStartup(v) == IF HasCloudDetection(v) THEN "detect_cloud_provider" ELSE "sample"

\* Import of the module up to the start of the loop or of initialize_environment:
\* the token is resolved and checked (at module level in v1.1.0 and v1.2.0, as
\* main's first statement in the other two files), the start-up lines are logged.
Startup ==
  /\ pc = "import"
  /\ SERVER_TOKEN' = ResolveToken(version, environ, configFile)
  /\ IF TokenMissing(SERVER_TOKEN')
       THEN /\ pc' = "exited"
            /\ exitStatus' = 1
            /\ cycle' = cycle
       ELSE /\ pc' = AfterStartup(version)
            /\ exitStatus' = exitStatus
            /\ cycle' = IF HasCloudDetection(version) THEN cycle ELSE 1
  /\ UNCHANGED <<version, stopLogged, environ, configFile, probeLog, CLOUD_PROVIDER,
                 provider_source, INSTANCE_TYPE, DETECTION_SOURCE, metadataLookups,
                 os_cache, osDetections, intervalSleeps, sample, payload, attempt,
                 posts, delays, sleeping, outcome, retval, cycleError,
                 environmentInits, instanceLog, hostSeen, readingSeen>>

\* ------------------------------------------------------------------------
\* Text
\* ------------------------------------------------------------------------
IsSpace(c) == c \in {" ", "\n", "\t"}

RECURSIVE LStrip(_)
LStrip(t) == IF t # <<>> /\ IsSpace(Head(t)) THEN LStrip(Tail(t)) ELSE t

RECURSIVE RStrip(_)
RStrip(t) ==
  IF t # <<>> /\ IsSpace(t[Len(t)]) THEN RStrip(SubSeq(t, 1, Len(t) - 1)) ELSE t

\* str.strip()
Strip(t) == RStrip(LStrip(t))

\* str.split(sep)[-1]: what follows the last separator, the whole text without one
RECURSIVE SplitLast(_, _)
SplitLast(t, sep) ==
  IF \E i \in 1..Len(t) : t[i] = sep
    THEN SplitLast(Tail(t), sep)
    ELSE t

\* ------------------------------------------------------------------------
\* Cloud detection (agents/v1.2.0)
\* ------------------------------------------------------------------------
\* (mutant) the AWS try block comes first
ProbeOrder_AwsFirst == <<"aws", "gcp", "azure", "digitalocean">>

\* the order of the four try blocks of detect_cloud_provider
ProbeOrder == <<"gcp", "aws", "azure", "digitalocean">>

\* What a probe can come back with: an exception raised by requests.get (a
\* network error, or a KeyboardInterrupt delivered while it waits), or a
\* response with a status and a body that holds the provider's marker or not.
ProbeResponses ==
  [exc : {"ConnectionError", "KeyboardInterrupt"}, status : {0}, marker : {FALSE}]
    \cup [exc : {None}, status : {200, 404}, marker : BOOLEAN]

\* (mutant) every provider is matched on the status alone
ProbeMatches_StatusOnly(p, r) == r.exc = None /\ r.status = 200

\* the condition of the `if` of the provider's try block
ProbeMatches(p, r) ==
  /\ r.exc = None
  /\ r.status = 200
  /\ (p = "azure" => r.marker)
  /\ (p = "digitalocean" => r.marker)

\* (mutant) the requests and psutil are called without a try around them
CaughtByBareExcept_Nothing(exc) == FALSE

\* the exceptions a bare `except:` catches: all of them
CaughtByBareExcept(exc) == TRUE

\* an exception leaves main outside its try: traceback, exit status 1
Crash ==
  /\ pc' = "exited"
  /\ exitStatus' = 1

\* one try block of detect_cloud_provider: the next probe is issued; a match
\* returns, the last probe without a match returns ("unknown", "unavailable").
Probe ==
  /\ pc = "detect_cloud_provider"
  /\ \E r \in ProbeResponses :
       LET p == ProbeOrder[Len(probeLog) + 1] IN
         /\ probeLog' = Append(probeLog, [probe |-> p, response |-> r])
         /\ IF r.exc # None /\ ~CaughtByBareExcept(r.exc)
              THEN /\ Crash
                   /\ UNCHANGED <<CLOUD_PROVIDER, provider_source>>
              ELSE IF ProbeMatches(p, r)
              THEN /\ CLOUD_PROVIDER' = p
                   /\ provider_source' = "metadata"
                   /\ pc' = "detect_instance_type"
                   /\ exitStatus' = exitStatus
              ELSE IF Len(probeLog') = Len(ProbeOrder)
                THEN /\ CLOUD_PROVIDER' = "unknown"
                     /\ provider_source' = "unavailable"
                     /\ pc' = "detect_instance_type"
                     /\ exitStatus' = exitStatus
                ELSE /\ pc' = pc
                     /\ exitStatus' = exitStatus
                     /\ UNCHANGED <<CLOUD_PROVIDER, provider_source>>
  /\ UNCHANGED <<version, stopLogged, environ, configFile, SERVER_TOKEN,
                 INSTANCE_TYPE, DETECTION_SOURCE, metadataLookups, os_cache,
                 osDetections, cycle, intervalSleeps, sample, payload, attempt, posts,
                 delays, sleeping, outcome, retval, cycleError, environmentInits,
                 instanceLog, hostSeen, readingSeen>>

\* Bodies the instance-type endpoints answer with, as token sequences
AwsBodies ==
  { <<"t3.micro">>, <<"t3.micro", "\n">>, <<>>,
    <<"404", " ", "Not", " ", "Found", "\n">> }

GcpBodies ==
  { <<"projects", "/", "123", "/", "machineTypes", "/", "e2-medium">>,
    <<"Not", " ", "Found">> }

\* The Azure instance document as r.json() sees it: not JSON at all, or an
\* object with or without "compute", with or without "vmSize" in it.
AzureDocs ==
  { [valid |-> FALSE, compute |-> FALSE, vmSize |-> NoText],
    [valid |-> TRUE, compute |-> FALSE, vmSize |-> NoText],
    [valid |-> TRUE, compute |-> TRUE, vmSize |-> NoText],
    [valid |-> TRUE, compute |-> TRUE, vmSize |-> <<"Standard_B1s">>] }

NoDoc == [valid |-> FALSE, compute |-> FALSE, vmSize |-> NoText]

\* What the instance-type request of a provider can come back with
InstanceResponses(provider) ==
  [exc : {"ConnectionError", "KeyboardInterrupt"}, status : {0}, text : {<<>>}, doc : {NoDoc}]
    \cup
  CASE provider = "aws" -> [exc : {None}, status : {200, 404}, text : AwsBodies, doc : {NoDoc}]
    [] provider = "gcp" -> [exc : {None}, status : {200, 404}, text : GcpBodies, doc : {NoDoc}]
    [] provider = "azure" -> [exc : {None}, status : {200, 404}, text : {<<>>}, doc : AzureDocs]
    [] OTHER -> {}

\* the providers detect_instance_type_metadata has a branch for
HasMetadataLookup(provider) == provider \in {"aws", "gcp", "azure"}

\* detect_instance_type_metadata(provider), given what its request comes back with
detect_instance_type_metadata(provider, r) ==
  IF ~HasMetadataLookup(provider) THEN NoText
  ELSE IF r.exc # None THEN NoText
  ELSE CASE provider = "aws" -> Strip(r.text)
         [] provider = "gcp" -> SplitLast(r.text, "/")
         [] provider = "azure" ->
              IF r.doc.valid /\ r.doc.compute /\ r.doc.vmSize # NoText
                THEN r.doc.vmSize
                ELSE NoText

\* (mutant) int(): the fraction n / d cut off at the point
PyRound_Truncate(n, d) == n \div d

\* Python's round() of the fraction n / d to an integer: half to even
PyRound(n, d) ==
  LET q == n \div d
      r == n % d
  IN IF 2 * r < d THEN q
     ELSE IF 2 * r > d THEN q + 1
     ELSE IF q % 2 = 0 THEN q ELSE q + 1

KiBPerGiB == 1024 * 1024

\* What psutil reports: the logical CPU count and the total memory (a whole
\* number of pages, given here in KiB), or an exception.
PsutilReadings ==
  { [exc |-> TRUE, cpu |-> 0, total_kib |-> 0],
    [exc |-> FALSE, cpu |-> 4, total_kib |-> 8 * KiBPerGiB],
    [exc |-> FALSE, cpu |-> 4, total_kib |-> 8 * KiBPerGiB - 240000],
    [exc |-> FALSE, cpu |-> 2, total_kib |-> 5 * (KiBPerGiB \div 2)],
    [exc |-> FALSE, cpu |-> 1, total_kib |-> KiBPerGiB \div 2] }

\* (mutant) the heuristic builds its slug for every provider
detect_instance_type_heuristic_AnyProvider(provider, h) ==
  IF h.exc THEN NoText
  ELSE <<"s-", ToString(h.cpu), "vcpu-", ToString(PyRound(h.total_kib, KiBPerGiB)), "gb">>

\* detect_instance_type_heuristic(provider), given what psutil reports
detect_instance_type_heuristic(provider, h) ==
  IF h.exc THEN NoText
  ELSE LET cpu == h.cpu
           mem_gb == PyRound(h.total_kib, KiBPerGiB)
       IN IF provider = "digitalocean"
            THEN <<"s-", ToString(cpu), "vcpu-", ToString(mem_gb), "gb">>
            ELSE NoText

\* initialize_environment after detect_cloud_provider has returned: the metadata
\* lookup, the heuristic when it yields nothing, the three globals.
DetectInstanceType ==
  /\ pc = "detect_instance_type"
  /\ \E h \in PsutilReadings :
     \E r \in IF HasMetadataLookup(CLOUD_PROVIDER)
                THEN InstanceResponses(CLOUD_PROVIDER) ELSE {NoDoc} :
       LET looked == HasMetadataLookup(CLOUD_PROVIDER)
           instance == detect_instance_type_metadata(CLOUD_PROVIDER, r)
           heuristic == detect_instance_type_heuristic(CLOUD_PROVIDER, h)
           escaped == \/ looked /\ r.exc # None /\ ~CaughtByBareExcept(r.exc)
                      \/ ~TruthyText(instance) /\ h.exc /\ ~CaughtByBareExcept("Error")
       IN /\ instanceLog' = [lookup |-> IF looked THEN <<r>> ELSE <<>>,
                              psutil |-> IF TruthyText(instance) THEN <<>> ELSE <<h>>]
          /\ IF escaped
               THEN /\ Crash
                    /\ UNCHANGED <<INSTANCE_TYPE, DETECTION_SOURCE, cycle, environmentInits>>
               ELSE /\ pc' = "sample"
                    /\ exitStatus' = exitStatus
                    /\ cycle' = 1
                    /\ environmentInits' = environmentInits + 1
                    /\ IF TruthyText(instance)
                         THEN /\ INSTANCE_TYPE' = instance
                              /\ DETECTION_SOURCE' = "metadata"
                         ELSE IF TruthyText(heuristic)
                           THEN /\ INSTANCE_TYPE' = heuristic
                                /\ DETECTION_SOURCE' = "heuristic"
                           ELSE /\ INSTANCE_TYPE' = INSTANCE_TYPE
                                /\ DETECTION_SOURCE' = "unavailable"
  /\ metadataLookups' = metadataLookups + (IF HasMetadataLookup(CLOUD_PROVIDER) THEN 1 ELSE 0)
  /\ probeLog' = <<>>
  /\ UNCHANGED <<version, stopLogged, environ, configFile, SERVER_TOKEN,
                 CLOUD_PROVIDER, provider_source, os_cache, osDetections,
                 intervalSleeps, sample, payload, attempt, posts, delays, sleeping,
                 outcome, retval, cycleError, hostSeen, readingSeen>>

\* ------------------------------------------------------------------------
\* OS detection
\* ------------------------------------------------------------------------
\* str.strip(c) for a one-character set
RECURSIVE LStripChar(_, _)
LStripChar(t, c) == IF t # <<>> /\ Head(t) = c THEN LStripChar(Tail(t), c) ELSE t

RECURSIVE RStripChar(_, _)
RStripChar(t, c) ==
  IF t # <<>> /\ t[Len(t)] = c THEN RStripChar(SubSeq(t, 1, Len(t) - 1), c) ELSE t

StripChar(t, c) == RStripChar(LStripChar(t, c), c)

\* line.split("=", 1)[1] with its white space and quotes removed, as each file does it
Unquote(v, raw) ==
  IF v = V110a
    THEN StripChar(StripChar(Strip(raw), "\""), "'")
    ELSE StripChar(Strip(raw), "\"")

\* the tokens that are runs of decimal digits
DigitRuns == {"22", "04", "3", "12"}

\* re.search(r'\d+\.\d+', text): the leftmost digits.digits, NoText without one
RECURSIVE ReSearchVersion(_)
ReSearchVersion(t) ==
  IF Len(t) < 3 THEN NoText
  ELSE IF t[1] \in DigitRuns /\ t[2] = "." /\ t[3] \in DigitRuns
    THEN SubSeq(t, 1, 3)
    ELSE ReSearchVersion(Tail(t))

\* One pass of the `for line` loop body over the (os_name, os_version) pair
ParseLine(v, line, st) ==
  LET value == Unquote(v, line.raw) IN
  IF line.key = "PRETTY_NAME" THEN [st EXCEPT !.os_name = value]
  ELSE IF v = V110a /\ line.key = "NAME" /\ ~TruthyText(st.os_name)
    THEN [st EXCEPT !.os_name = value]
  ELSE IF v = V110a /\ line.key = "ID" /\ ~TruthyText(st.os_name)
    THEN [st EXCEPT !.os_name = value]
  ELSE IF line.key = "VERSION_ID" THEN [st EXCEPT !.os_version = value]
  ELSE IF v = V110a /\ line.key = "VERSION" /\ ~TruthyText(st.os_version)
    THEN LET match == ReSearchVersion(value) IN
         IF match # NoText THEN [st EXCEPT !.os_version = match] ELSE st
  ELSE st

RECURSIVE ParseLines(_, _, _)
ParseLines(v, lines, st) ==
  IF lines = <<>> THEN st ELSE ParseLines(v, Tail(lines), ParseLine(v, Head(lines), st))

Line(key, raw) == [key |-> key, raw |-> raw]

\* /etc/os-release files
OsReleaseFull ==
  << Line("PRETTY_NAME", <<"\"", "Ubuntu 22.04.3 LTS", "\"", "\n">>),
     Line("NAME", <<"\"", "Ubuntu", "\"", "\n">>),
     Line("VERSION_ID", <<"\"", "22", ".", "04", "\"", "\n">>),
     Line("VERSION", <<"\"", "22", ".", "04", ".", "3", " ", "LTS", "\"", "\n">>),
     Line("ID", <<"ubuntu", "\n">>) >>

OsReleaseLegacy ==
  << Line("VERSION", <<"'", "12", " ", "(bookworm)", "'", "\n">>),
     Line("ID", <<"debian", "\n">>),
     Line("HOME_URL", <<"\"", "https://www.debian.org/", "\"", "\n">>) >>

OsReleaseBlank ==
  << Line("PRETTY_NAME", <<"\"", "\"", "\n">>),
     Line("VERSION_ID", <<"\n">>) >>

\* The hosts the agent may run on: sys.platform, whether /etc/os-release can be
\* read and what it holds, the registry's ProductName (NoText when unreadable).
Hosts ==
  [platform : {"linux"}, readable : {TRUE},
   lines : {OsReleaseFull, OsReleaseLegacy, OsReleaseBlank}, product_name : {NoText}]
    \cup [platform : {"linux"}, readable : {FALSE}, lines : {<<>>}, product_name : {NoText}]
    \cup [platform : {"win32"}, readable : {FALSE}, lines : {<<>>},
          product_name : {NoText, <<"Windows 10 Pro">>}]
    \cup [platform : {"darwin"}, readable : {FALSE}, lines : {<<>>}, product_name : {NoText}]

\* the body of detect_os below its cache test: (os_type, os_name, os_version)
detect_os(v, host) ==
  IF host.platform = "linux"
    THEN LET st == IF host.readable
                     THEN ParseLines(v, host.lines, [os_name |-> NoText, os_version |-> NoText])
                     ELSE [os_name |-> NoText, os_version |-> NoText]
         IN <<"linux", st.os_name, st.os_version>>
  ELSE IF host.platform = "win32"
    THEN <<"windows",
           IF v = V110a /\ TruthyText(host.product_name)
             THEN host.product_name ELSE <<"Windows">>,
           <<"10">>>>
  ELSE <<None, NoText, NoText>>

\* no cached OS tuple yet
NoCache == <<>>

\* a cache test that looks into the tuple: a tuple without an os_type is a miss
CacheHit_WhenDetected(v, cache) == cache # NoCache /\ Truthy(cache[1])

\* the cache test: `if _os_cache:` in v1.1.0 and v1.2.0, `is None` in v.1.1.0
CacheHit(v, cache) == cache # NoCache

\* ------------------------------------------------------------------------
\* Sampling
\* ------------------------------------------------------------------------
\* What the metrics provider and the ping report in a cycle: the three
\* percentages in thousandths of a percent, the ping's result, or an exception
\* raised by psutil.
Readings ==
  { [exc |-> TRUE, cpu |-> 0, memory |-> 0, disk |-> 0, ping |-> "error"],
    [exc |-> FALSE, cpu |-> 12344, memory |-> 50000, disk |-> 100000, ping |-> "0"],
    [exc |-> FALSE, cpu |-> 0, memory |-> 50006, disk |-> 99996, ping |-> "timeout"] }

\* (mutant) the third decimal is cut off instead of rounded
Round2_Truncate(x) == x \div 10

\* round(x, 2), x in thousandths, the result in hundredths
Round2(x) == PyRound(x, 10)

\* check_connectivity(): "up" on return code 0, "down" otherwise and on any exception
check_connectivity(ping) == IF ping = "0" THEN "up" ELSE "down"

\* the four arguments main passes to send_metrics; tick is the cycle they were read in
Sample(reading, tick) ==
  [cpu |-> Round2(reading.cpu), memory |-> Round2(reading.memory),
   disk |-> Round2(reading.disk), status |-> check_connectivity(reading.ping),
   tick |-> tick]

\* (mutant) the loop goes on to its next pass without time.sleep(INTERVAL)
EnterIntervalSleep_NoSleep ==
  /\ pc' = "sample"
  /\ sleeping' = 0
  /\ intervalSleeps' = intervalSleeps

\* main's `except Exception` followed by time.sleep(INTERVAL)
\* (the variables of the send are left to the caller)
EnterIntervalSleep ==
  /\ pc' = "interval_sleep"
  /\ sleeping' = INTERVAL
  /\ intervalSleeps' = intervalSleeps + 1

\* The argument list of the send_metrics call is evaluated, psutil and the ping
\* reporting r. An exception of psutil is caught by main, which goes to sleep.
TakeSampleOf(r) ==
  /\ pc = "sample"
  /\ readingSeen' = r
  /\ instanceLog' = NoInstanceLog
  /\ IF r.exc
       THEN /\ cycleError' = TRUE
            /\ sample' = sample
            /\ EnterIntervalSleep
       ELSE /\ sample' = Sample(r, cycle)
            /\ pc' = "send_metrics"
            /\ UNCHANGED <<cycleError, sleeping, intervalSleeps>>
  /\ UNCHANGED <<version, exitStatus, stopLogged, environ, configFile, SERVER_TOKEN,
                 probeLog, CLOUD_PROVIDER, provider_source, INSTANCE_TYPE,
                 DETECTION_SOURCE, metadataLookups, os_cache, osDetections, cycle,
                 payload, attempt, posts, delays, outcome, retval, environmentInits,
                 hostSeen>>

TakeSample == \E r \in Readings : TakeSampleOf(r)

\* ------------------------------------------------------------------------
\* The payload
\* ------------------------------------------------------------------------
SampleKeys == {"cpu", "memory", "disk", "status"}
CloudKeys == {"cloud_provider", "instance_type", "cloud_detection_source"}

\* the keys of the dict literal, and the keys the three `if` statements add
PayloadKeys(v, osinfo) ==
  SampleKeys
    \cup (IF v \in {V110b, V120} THEN {"agent_version"} ELSE {})
    \cup (IF HasCloudDetection(v) THEN CloudKeys ELSE {})
    \cup (IF HasOsDetection(v) /\ Truthy(osinfo[1]) THEN {"os_type"} ELSE {})
    \cup (IF HasOsDetection(v) /\ TruthyText(osinfo[2]) THEN {"os_name"} ELSE {})
    \cup (IF HasOsDetection(v) /\ TruthyText(osinfo[3]) THEN {"os_version"} ELSE {})

AGENT_VERSION(v) == IF v = V120 THEN "v1.3.0" ELSE "v1.1.0"

\* the payload dict of send_metrics
Payload(v, smp, osinfo, provider, instance, source) ==
  [k \in PayloadKeys(v, osinfo) |->
     CASE k = "cpu" -> smp.cpu
       [] k = "memory" -> smp.memory
       [] k = "disk" -> smp.disk
       [] k = "status" -> smp.status
       [] k = "agent_version" -> AGENT_VERSION(v)
       [] k = "cloud_provider" -> provider
       [] k = "instance_type" -> instance
       [] k = "cloud_detection_source" -> source
       [] k = "os_type" -> osinfo[1]
       [] k = "os_name" -> osinfo[2]
       [] k = "os_version" -> osinfo[3]]

\* send_metrics up to its retry loop, on host h: the OS tuple (detected on the
\* first call, from the cache afterwards), the payload, the headers.
BuildPayloadOn(h) ==
  /\ pc = "send_metrics"
  /\ LET hit == CacheHit(version, os_cache)
         detects == HasOsDetection(version) /\ ~hit
         osinfo == IF ~HasOsDetection(version) THEN <<None, NoText, NoText>>
                   ELSE IF hit THEN os_cache
                   ELSE detect_os(version, h)
     IN /\ os_cache' = IF HasOsDetection(version) THEN osinfo ELSE os_cache
        /\ osDetections' = IF detects THEN osDetections + 1 ELSE osDetections
        /\ hostSeen' = IF detects THEN h ELSE hostSeen
        /\ payload' = Payload(version, sample, osinfo, CLOUD_PROVIDER,
                              INSTANCE_TYPE, DETECTION_SOURCE)
  /\ attempt' = 1
  /\ posts' = <<>>
  /\ delays' = 0
  /\ pc' = "post"
  /\ UNCHANGED <<version, exitStatus, stopLogged, environ, configFile, SERVER_TOKEN,
                 probeLog, CLOUD_PROVIDER, provider_source, INSTANCE_TYPE,
                 DETECTION_SOURCE, metadataLookups, cycle, intervalSleeps, sample,
                 sleeping, outcome, retval, cycleError, environmentInits, instanceLog,
                 readingSeen>>

BuildPayload == \E h \in Hosts : BuildPayloadOn(h)

\* ------------------------------------------------------------------------
\* Delivery
\* ------------------------------------------------------------------------
\* What requests.post can come back with: a response with a status, a
\* requests.exceptions.RequestException (timeout, connection refused or reset,
\* DNS failure), or another Exception.
PostResponses ==
  { [exc |-> None, status |-> 200],
    [exc |-> None, status |-> 500],
    [exc |-> "RequestException", status |-> 0],
    [exc |-> "ValueError", status |-> 0] }

\* (mutant) any response at all counts as success
IsOk_AnyResponse(r) == r.exc = None

IsOk(r) == r.exc = None /\ r.status = 200

\* the exceptions the `except` clause of the retry loop catches
CaughtInLoop(v, r) ==
  IF HasGuardedDelay(v) THEN r.exc = "RequestException" ELSE r.exc # None

\* (mutant) the loop gives up one attempt early
SleepsAfterFailure_OffByOne(v, n) == n < MAX_RETRIES - 1

\* whether a failed attempt is followed by time.sleep(RETRY_DELAY)
SleepsAfterFailure(v, n) == IF HasGuardedDelay(v) THEN n < MAX_RETRIES ELSE TRUE

\* the value of `return True`, `return False` and a bare `return`
ReturnOnSuccess(v) == IF HasGuardedDelay(v) THEN "True" ELSE None
ReturnOnExhaustion(v) == IF HasGuardedDelay(v) THEN "False" ELSE None

\* (mutant) main has no `except Exception`: an exception of the cycle ends the loop
Resolve_Uncaught(how, value, raised) ==
  /\ outcome' = how
  /\ retval' = value
  /\ cycleError' = raised
  /\ IF raised
       THEN pc' = "stopped" /\ UNCHANGED <<sleeping, intervalSleeps>>
       ELSE EnterIntervalSleep

\* send_metrics is left: how, and with what value; main goes on to time.sleep(INTERVAL)
Resolve(how, value, raised) ==
  /\ outcome' = how
  /\ retval' = value
  /\ cycleError' = raised
  /\ EnterIntervalSleep

\* One pass of the retry loop up to its sleep: the request is sent and answered.
Post ==
  /\ pc = "post"
  /\ \E r \in PostResponses :
       /\ posts' = Append(posts, [body |-> payload, authorization |-> SERVER_TOKEN,
                                   tick |-> sample.tick, cycle |-> cycle, response |-> r])
       /\ IF IsOk(r)
            THEN /\ Resolve("delivered", ReturnOnSuccess(version), cycleError)
                 /\ delays' = delays
            ELSE IF r.exc # None /\ ~CaughtInLoop(version, r)
              THEN /\ Resolve("raised", None, TRUE)
                   /\ delays' = delays
            ELSE IF SleepsAfterFailure(version, attempt)
              THEN /\ pc' = "retry_delay"
                   /\ sleeping' = RETRY_DELAY
                   /\ delays' = delays + 1
                   /\ UNCHANGED <<outcome, retval, cycleError, intervalSleeps>>
            ELSE /\ Resolve("exhausted", ReturnOnExhaustion(version), cycleError)
                 /\ delays' = delays
  /\ UNCHANGED <<version, exitStatus, stopLogged, environ, configFile, SERVER_TOKEN,
                 probeLog, CLOUD_PROVIDER, provider_source, INSTANCE_TYPE,
                 DETECTION_SOURCE, metadataLookups, os_cache, osDetections, cycle,
                 sample, payload, attempt, environmentInits, instanceLog, hostSeen,
                 readingSeen>>

\* (mutant) after the delay the loop of main is re-entered at the readings
\* instead of the next pass of the retry loop
RetryDelay_Resamples ==
  /\ pc = "retry_delay"
  /\ pc' = "sample"
  /\ sleeping' = 0
  /\ sample' = <<>>
  /\ payload' = <<>>
  /\ readingSeen' = <<>>
  /\ UNCHANGED <<version, exitStatus, stopLogged, environ, configFile, SERVER_TOKEN,
                 probeLog, CLOUD_PROVIDER, provider_source, INSTANCE_TYPE,
                 DETECTION_SOURCE, metadataLookups, os_cache, osDetections, cycle,
                 intervalSleeps, attempt, posts, delays, outcome, retval, cycleError,
                 environmentInits, instanceLog, hostSeen>>

\* time.sleep(RETRY_DELAY) returns: the next pass of the loop, or the end of the
\* loop when it was the last pass.
RetryDelay ==
  /\ pc = "retry_delay"
  /\ IF attempt < MAX_RETRIES
       THEN /\ attempt' = attempt + 1
            /\ pc' = "post"
            /\ sleeping' = 0
            /\ UNCHANGED <<outcome, retval, cycleError, intervalSleeps>>
       ELSE /\ attempt' = attempt
            /\ Resolve("exhausted", ReturnOnExhaustion(version), cycleError)
  /\ UNCHANGED <<version, exitStatus, stopLogged, environ, configFile, SERVER_TOKEN,
                 probeLog, CLOUD_PROVIDER, provider_source, INSTANCE_TYPE,
                 DETECTION_SOURCE, metadataLookups, os_cache, osDetections, cycle,
                 sample, payload, posts, delays, environmentInits, instanceLog,
                 hostSeen, readingSeen>>

\* time.sleep(INTERVAL) returns: the next pass of `while True`; the locals of
\* the finished pass are gone.
IntervalSleep ==
  /\ pc = "interval_sleep"
  /\ cycle < MaxCycles
  /\ cycle' = cycle + 1
  /\ pc' = "sample"
  /\ sleeping' = 0
  /\ sample' = <<>>
  /\ payload' = <<>>
  /\ attempt' = 0
  /\ posts' = <<>>
  /\ delays' = 0
  /\ outcome' = None
  /\ retval' = None
  /\ cycleError' = FALSE
  /\ readingSeen' = <<>>
  /\ UNCHANGED <<version, exitStatus, stopLogged, environ, configFile, SERVER_TOKEN,
                 probeLog, CLOUD_PROVIDER, provider_source, INSTANCE_TYPE,
                 DETECTION_SOURCE, metadataLookups, os_cache, osDetections,
                 intervalSleeps, environmentInits, instanceLog, hostSeen>>

\* ------------------------------------------------------------------------
\* Operator interrupt
\* ------------------------------------------------------------------------
\* the statements main's `try` encloses: the sampling calls and send_metrics
InsideTry(at) == at \in {"sample", "send_metrics", "post", "retry_delay"}

\* the process runs (it has neither exited nor been stopped)
Alive(at) == at \notin {"exited", "stopped"}

\* the loop of main has been entered
Running(at) == InsideTry(at) \/ at = "interval_sleep"

\* exit status of a Python process ended by an uncaught KeyboardInterrupt
UncaughtStatuses == {1, 130}

\* KeyboardInterrupt is raised in the main thread, outside the requests of the
\* metadata probes (those are responses of Probe and DetectInstanceType). Inside
\* main's try the handler logs "Agent stopped" and exits with 0; anywhere else
\* the exception is uncaught and ends the process with a traceback.
Interrupt ==
  /\ Alive(pc)
  /\ pc' = "stopped"
  /\ IF InsideTry(pc)
       THEN /\ stopLogged' = TRUE
            /\ exitStatus' = 0
       ELSE /\ stopLogged' = stopLogged
            /\ exitStatus' \in UncaughtStatuses
  /\ UNCHANGED <<version, environ, configFile, SERVER_TOKEN, probeLog, CLOUD_PROVIDER,
                 provider_source, INSTANCE_TYPE, DETECTION_SOURCE, metadataLookups,
                 os_cache, osDetections, cycle, intervalSleeps, sample, payload,
                 attempt, posts, delays, sleeping, outcome, retval, cycleError,
                 environmentInits, instanceLog, hostSeen, readingSeen>>

Next ==
  \/ Startup
  \/ Probe
  \/ DetectInstanceType
  \/ TakeSample
  \/ BuildPayload
  \/ Post
  \/ RetryDelay
  \/ IntervalSleep
  \/ Interrupt

Spec == Init /\ [][Next]_vars

\* ------------------------------------------------------------------------
\* The functions of single steps, on inputs of their own
\* ------------------------------------------------------------------------
\* The process of version v as it enters `while True` for the first time, the
\* token taken from the environment and (v1.2.0) no metadata service answering.
LoopEntry(v) ==
  /\ version = v
  /\ pc = "sample"
  /\ exitStatus = NoExit
  /\ stopLogged = FALSE
  /\ environ = "env-token"
  /\ configFile = "missing"
  /\ SERVER_TOKEN = "env-token"
  /\ probeLog = <<>>
  /\ IF HasCloudDetection(v)
       THEN /\ CLOUD_PROVIDER = "unknown"
            /\ provider_source = "unavailable"
            /\ DETECTION_SOURCE = "unavailable"
            /\ environmentInits = 1
            /\ instanceLog = [lookup |-> <<>>,
                              psutil |-> <<[exc |-> TRUE, cpu |-> 0, total_kib |-> 0]>>]
       ELSE /\ CLOUD_PROVIDER = None
            /\ provider_source = None
            /\ DETECTION_SOURCE = None
            /\ environmentInits = 0
            /\ instanceLog = NoInstanceLog
  /\ INSTANCE_TYPE = NoText
  /\ metadataLookups = 0
  /\ os_cache = NoCache
  /\ osDetections = 0
  /\ cycle = 1
  /\ intervalSleeps = 0
  /\ sample = <<>>
  /\ payload = <<>>
  /\ attempt = 0
  /\ posts = <<>>
  /\ delays = 0
  /\ sleeping = 0
  /\ outcome = None
  /\ retval = None
  /\ cycleError = FALSE
  /\ hostSeen = <<>>
  /\ readingSeen = <<>>

\* 100 percent, in thousandths of a percent
FullScale == 100 * 1000

\* The percentages psutil can report, in thousandths: those whose round(x, 2)
\* does not depend on how the float stores them, i.e. every value that is not
\* halfway between two hundredths, and the halfway values a float holds exactly
\* (the multiples of 0.125).
RawPercents == {x \in 0..FullScale : x % 10 # 5 \/ x % 125 = 0}

\* one reading per percentage, the three gauges at different points of the scale
RoundingInputs ==
  {[exc |-> FALSE, cpu |-> x, memory |-> FullScale - x,
    disk |-> (x + FullScale \div 2) % FullScale, ping |-> "0"] : x \in RawPercents}

InitRounding == LoopEntry(V120)

\* get_cpu_usage(), get_memory_usage(), get_disk_usage() on one of the readings
RoundReading ==
  /\ pc = "sample"
  /\ \E r \in RoundingInputs : TakeSampleOf(r)

NextRounding == RoundReading

SpecRounding == InitRounding /\ [][NextRounding]_vars

\* The keys detect_os looks for, and what a line of each can hold: nothing
\* between its quotes ("empty"), a value ("value"), or for VERSION a value with
\* or without a digits.digits in it ("value", "words").
NameKeys == {"PRETTY_NAME", "NAME", "ID"}
VersionKeys == {"VERSION_ID", "VERSION"}

KindsOf(key) == IF key = "VERSION" THEN {"empty", "value", "words"} ELSE {"empty", "value"}

\* the text after "KEY=" of a line of the release file
RawOf(key, kind) ==
  IF kind = "empty" THEN <<"\"", "\"", "\n">>
  ELSE CASE key = "PRETTY_NAME" -> <<"\"", "Debian GNU/Linux 12 (bookworm)", "\"", "\n">>
         [] key = "NAME" -> <<"\"", "Debian GNU/Linux", "\"", "\n">>
         [] key = "ID" -> <<"debian", "\n">>
         [] key = "VERSION_ID" -> <<"\"", "12", ".", "04", "\"", "\n">>
         [] key = "VERSION" ->
              IF kind = "value"
                THEN <<"\"", "22", ".", "04", ".", "3", " ", "LTS", "\"", "\n">>
                ELSE <<"\"", "12", " ", "(bookworm)", "\"", "\n">>

\* the orders in which the keys of K can stand in a file
Orders(K) ==
  {p \in [1..Cardinality(K) -> K] : \A i, j \in DOMAIN p : p[i] = p[j] => i = j}

\* every file that holds each key of a subset of keys once, in every order and
\* with every kind of value
FilesOver(keys) ==
  UNION { { [i \in DOMAIN p |-> Line(p[i], RawOf(p[i], kinds[p[i]]))] :
            p \in Orders(K),
            kinds \in {c \in [K -> {"empty", "value", "words"}] :
                         \A k \in K : c[k] \in KindsOf(k)} } :
          K \in SUBSET keys }

\* Linux hosts with a readable /etc/os-release made of name lines or of version lines
OsReleaseHosts ==
  [platform : {"linux"}, readable : {TRUE},
   lines : FilesOver(NameKeys) \cup FilesOver(VersionKeys), product_name : {NoText}]

InitOsRelease == \E v \in {V110a, V110b, V120} : LoopEntry(v)

\* the first send_metrics call: detect_os reads one of the release files
ReadOsRelease ==
  /\ pc = "send_metrics"
  /\ \E h \in OsReleaseHosts : BuildPayloadOn(h)

NextOsRelease ==
  \/ TakeSample
  \/ ReadOsRelease

SpecOsRelease == InitOsRelease /\ [][NextOsRelease]_vars

\* ------------------------------------------------------------------------
\* Properties
\* ------------------------------------------------------------------------
\* an attempt that received HTTP 200
Got200(p) == p.response.exc = None /\ p.response.status = 200

\* an attempt that failed with a non-200 status or a transport-level exception
FailedInTransit(p) ==
  \/ p.response.exc = None /\ p.response.status # 200
  \/ p.response.exc = "RequestException"

\* the send_metrics call of the cycle has been left
SendResolved == outcome # None

\* C1: if the first HTTP 200 of a send arrives on attempt k, after k-1 failed
\* attempts, the send has made exactly k POSTs and k-1 delays, each of
\* RETRY_DELAY, makes no further attempt or delay, and ends as delivered; a send
\* that ends as delivered has its 200 on its last attempt. So 500, 500, 200
\* gives 3 attempts and 2 delays.
C1_DeliveredOnFirst200 ==
  /\ \A k \in 1..Len(posts) :
       Got200(posts[k]) =>
         /\ k <= MAX_RETRIES
         /\ Len(posts) = k
         /\ \A i \in 1..(k - 1) : ~Got200(posts[i])
         /\ delays = k - 1
         /\ outcome = "delivered"
         /\ pc \in {"interval_sleep", "stopped"}
         /\ sleeping # RETRY_DELAY
  /\ outcome = "delivered" => posts # <<>> /\ Got200(posts[Len(posts)])
  /\ pc = "retry_delay" => sleeping = RETRY_DELAY

C1_Witness ==
  /\ outcome = "delivered"
  /\ Len(posts) = 3
  /\ posts[1].response.status = 500
  /\ posts[2].response.status = 500
  /\ posts[3].response.status = 200
  /\ delays = 2
  /\ version = V120

\* C2 (states): a send never makes more than MAX_RETRIES POSTs; once it is left
\* with every attempt failed by a non-200 status or a transport exception, it
\* has made exactly MAX_RETRIES POSTs and ended as exhausted, and main is in its
\* interval sleep (or was interrupted in it); every POST carries the sample
\* read in the cycle it is sent in.
C2_Exhausted ==
  /\ Len(posts) <= MAX_RETRIES
  /\ \A i \in 1..Len(posts) : posts[i].tick = cycle /\ posts[i].cycle = cycle
  /\ (SendResolved /\ \A i \in 1..Len(posts) : FailedInTransit(posts[i])) =>
       /\ Len(posts) = MAX_RETRIES
       /\ outcome = "exhausted"
       /\ pc \in {"interval_sleep", "stopped"}
       /\ sleeping = INTERVAL

\* C2 (steps): after an exhausted send the interval sleep ends in the start of
\* the next cycle, with nothing of the old sample left to send, unless the
\* operator interrupts it.
C2_NextCycle ==
  (pc = "interval_sleep" /\ outcome = "exhausted" /\ pc' # pc) =>
     \/ pc' = "stopped"
     \/ pc' = "sample" /\ cycle' = cycle + 1 /\ posts' = <<>> /\ sample' = <<>>

\* C2: no send without a 200 makes more or fewer than MAX_RETRIES attempts; it
\* ends as exhausted, its sample is never sent in a later cycle, and main sleeps
\* the interval and starts the next cycle.
C2_ExhaustedThenNextCycle == []C2_Exhausted /\ [][C2_NextCycle]_vars

C2_Witness ==
  /\ cycle = 2
  /\ outcome = "exhausted"
  /\ Len(posts) = MAX_RETRIES
  /\ posts[1].response.exc = "RequestException"
  /\ posts[2].response.status = 500
  /\ pc = "interval_sleep"

\* C3: an exhausted send has slept RETRY_DELAY exactly MAX_RETRIES - 1 times:
\* there is no delay after the final failed attempt.
C3_NoDelayAfterFinalAttempt ==
  outcome = "exhausted" => delays = MAX_RETRIES - 1

\* C4: a send_metrics call whose requests each returned a response or failed
\* in transit hands main exactly one of two values, delivered (True) or
\* exhausted (False): delivered if and only if some attempt received HTTP 200.
C4_OutcomeReturned ==
  (SendResolved /\ \A i \in 1..Len(posts) : Got200(posts[i]) \/ FailedInTransit(posts[i])) =>
    /\ retval \in {"True", "False"}
    /\ retval = "True" <=> \E i \in 1..Len(posts) : Got200(posts[i])

\* C5: an operator interrupt received while the loop runs stops the agent
\* through the clean exit: the stop line is logged and the exit status is 0.
C5_InterruptStopsCleanly ==
  (pc = "stopped" /\ cycle >= 1) => (stopLogged /\ exitStatus = 0)

\* C6 (states): while the loop runs, the interval sleeps started number one per
\* finished cycle, each of INTERVAL; an exception of a cycle leaves the process
\* running.
C6_OneSleepPerCycle ==
  /\ Running(pc) =>
       /\ exitStatus = NoExit
       /\ intervalSleeps = (IF pc = "interval_sleep" THEN cycle ELSE cycle - 1)
  /\ pc = "interval_sleep" => sleeping = INTERVAL
  /\ (cycleError /\ pc # "stopped") => pc = "interval_sleep"

\* C6 (steps): the loop is left only by the operator's interrupt; whatever ends
\* a cycle (delivered, exhausted, an exception of sampling or of sending) leads
\* to the interval sleep; the interval sleep leads to the next cycle.
C6_LoopStep ==
  /\ (Running(pc) /\ ~Running(pc')) => Interrupt
  /\ (InsideTry(pc) /\ pc' # "stopped" /\ (outcome' # outcome \/ cycleError' # cycleError)) =>
       (pc' = "interval_sleep" /\ intervalSleeps' = intervalSleeps + 1)
  /\ (pc = "interval_sleep" /\ pc' \notin {"interval_sleep", "stopped"}) =>
       (pc' = "sample" /\ cycle' = cycle + 1 /\ ~cycleError')

\* C6: no result of a cycle takes the loop out of RUNNING: each is followed by
\* exactly one interval sleep of INTERVAL and then a new cycle; only the
\* operator's interrupt stops the agent.
C6_LoopNeverLeavesRunning == []C6_OneSleepPerCycle /\ [][C6_LoopStep]_vars

C6_Witness ==
  /\ cycle = 2
  /\ intervalSleeps = 2
  /\ pc = "interval_sleep"
  /\ cycleError
  /\ outcome = "raised"
  /\ version = V100

\* no token in the environment and none in config.json
NoTokenAvailable == environ \in {None, ""} /\ configFile # "key"

\* C7: without a token the process ends with a failure status at start-up:
\* no sample is taken, no metadata probe and no delivery request is issued, and
\* the loop is never entered.
C7_NoTokenNoStart ==
  NoTokenAvailable =>
    /\ pc \in {"import", "exited", "stopped"}
    /\ pc # "import" => exitStatus \notin {NoExit, 0}
    /\ cycle = 0
    /\ sample = <<>>
    /\ probeLog = <<>>
    /\ metadataLookups = 0
    /\ posts = <<>>
    /\ ~stopLogged

C7_Witness ==
  /\ version = V120
  /\ environ = ""
  /\ configFile = "empty-key"
  /\ pc = "exited"
  /\ exitStatus = 1

\* the order of the probes, and what counts as a match of each
ClaimedOrder == <<"gcp", "aws", "azure", "digitalocean">>

ClaimedMatch(e) ==
  /\ e.response.exc = None
  /\ e.response.status = 200
  /\ (e.probe \in {"azure", "digitalocean"} => e.response.marker)

\* detect_cloud_provider has returned and initialize_environment goes on
ProviderDetected == pc = "detect_instance_type"

\* C8: the probes are issued in the order GCP, AWS, Azure, DigitalOcean; none is
\* issued after a match; the result is the first provider whose probe matches,
\* with source metadata. A GCP probe answered with 200 gives (gcp, metadata)
\* after that one probe.
C8_FirstMatchWins ==
  /\ Len(probeLog) <= Len(ClaimedOrder)
  /\ \A i \in 1..Len(probeLog) :
       /\ probeLog[i].probe = ClaimedOrder[i]
       /\ ClaimedMatch(probeLog[i]) =>
            /\ i = Len(probeLog)
            /\ ProviderDetected \/ pc = "stopped"
            /\ CLOUD_PROVIDER = ClaimedOrder[i]
            /\ provider_source = "metadata"
  /\ (probeLog # <<>> /\ probeLog[1].response.exc = None /\ probeLog[1].response.status = 200) =>
       /\ Len(probeLog) = 1
       /\ CLOUD_PROVIDER = "gcp"
       /\ provider_source = "metadata"

C8_Witness ==
  /\ ProviderDetected
  /\ Len(probeLog) = 1
  /\ probeLog[1].probe = "gcp"
  /\ probeLog[1].response.status = 200
  /\ CLOUD_PROVIDER = "gcp"
  /\ provider_source = "metadata"

\* C9 (states): while probes remain, every probe issued so far was a non-match;
\* when detection returns without any match, all four probes were issued and
\* the result is (unknown, unavailable).
C9_NonMatchMovesOn ==
  /\ pc = "detect_cloud_provider" =>
       /\ Len(probeLog) < Len(ClaimedOrder)
       /\ \A i \in 1..Len(probeLog) : ~ClaimedMatch(probeLog[i])
       /\ CLOUD_PROVIDER = None
  /\ (ProviderDetected /\ \A i \in 1..Len(probeLog) : ~ClaimedMatch(probeLog[i])) =>
       /\ Len(probeLog) = Len(ClaimedOrder)
       /\ CLOUD_PROVIDER = "unknown"
       /\ provider_source = "unavailable"

\* C9 (steps): a probe that is answered, with whatever error, leaves the process
\* in detection: with the next probe, or with the result.
C9_ProbeStep ==
  (pc = "detect_cloud_provider" /\ probeLog' # probeLog) =>
     /\ exitStatus' = NoExit
     /\ pc' = (IF ClaimedMatch(probeLog'[Len(probeLog')]) \/ Len(probeLog') = Len(ClaimedOrder)
                THEN "detect_instance_type" ELSE "detect_cloud_provider")

\* C9: a probe that raises, returns a non-200 status, or (Azure, DigitalOcean)
\* returns 200 without its marker is a non-match and detection goes on to the
\* next probe; no probe error reaches the caller; without any match the result
\* is (unknown, unavailable).
C9_ProbeErrorsAbsorbed == []C9_NonMatchMovesOn /\ [][C9_ProbeStep]_vars

C9_Witness ==
  /\ ProviderDetected
  /\ Len(probeLog) = 4
  /\ probeLog[1].response.exc = "ConnectionError"
  /\ probeLog[2].response.status = 404
  /\ probeLog[3].response.status = 200
  /\ probeLog[4].response.status = 200
  /\ CLOUD_PROVIDER = "unknown"
  /\ provider_source = "unavailable"

\* the optional fields of the envelope
OptionalFields == {"os_type", "os_name", "os_version", "instance_type"}

\* a field's value that is null or empty (os_type is a name, the others are text)
NullOrEmpty(k, x) == IF k = "os_type" THEN x \in {None, ""} ELSE x \in {NoText, <<>>}

\* C10: no delivery body carries an optional field with a null or empty value.
C10_OptionalFieldsOmitted ==
  \A i \in 1..Len(posts) :
    \A k \in OptionalFields \cap DOMAIN posts[i].body :
      ~NullOrEmpty(k, posts[i].body[k])

\* the OS fields of the envelope are those of the cached tuple
C11_EnvelopeFromCache ==
  (HasOsDetection(version) /\ payload # <<>>) =>
    /\ os_cache # NoCache
    /\ \A i \in 1..3 :
         LET k == <<"os_type", "os_name", "os_version">>[i] IN
           IF k \in DOMAIN payload
             THEN payload[k] = os_cache[i]
             ELSE IF i = 1 THEN ~Truthy(os_cache[i]) ELSE ~TruthyText(os_cache[i])

C11_DetectedAtMostOnce ==
  /\ osDetections <= 1
  /\ (os_cache # NoCache) <=> (osDetections = 1)
  /\ C11_EnvelopeFromCache

\* once a tuple is cached, no step reads the platform sources or replaces it
C11_CacheStep ==
  (os_cache # NoCache) =>
    /\ os_cache' = os_cache
    /\ osDetections' = osDetections
    /\ hostSeen' = hostSeen

\* C11: OS detection runs at most once per process; after the first detect_os
\* call every later call returns the identical cached tuple without reading the
\* platform sources again, also when the first detection found nothing or its
\* read of the platform failed.
C11_OsDetectedOnce == []C11_DetectedAtMostOnce /\ [][C11_CacheStep]_vars

\* the second cycle's envelope is built from a cached tuple of three absent fields
C11_Witness ==
  /\ cycle = 2
  /\ pc = "post"
  /\ osDetections = 1
  /\ os_cache = <<None, NoText, NoText>>
  /\ DOMAIN payload \cap {"os_type", "os_name", "os_version"} = {}

\* the CloudInfo an envelope carries
CloudInfoOf(body) ==
  <<body["cloud_provider"], body["instance_type"], body["cloud_detection_source"]>>

\* initialize_environment has run once before anything of the loop exists,
\* and the envelope and every delivery body of the cycle carry the globals
C12_InitializedBeforeLoop ==
  HasCloudDetection(version) =>
    /\ environmentInits \in {0, 1}
    /\ (environmentInits = 0) =>
         /\ ~Running(pc)
         /\ cycle = 0
         /\ sample = <<>>
         /\ payload = <<>>
         /\ posts = <<>>
    /\ (environmentInits = 1) =>
         /\ CLOUD_PROVIDER # None
         /\ DETECTION_SOURCE # None
         /\ payload # <<>> =>
              CloudInfoOf(payload) = <<CLOUD_PROVIDER, INSTANCE_TYPE, DETECTION_SOURCE>>
         /\ \A i \in 1..Len(posts) :
              CloudInfoOf(posts[i].body) = <<CLOUD_PROVIDER, INSTANCE_TYPE, DETECTION_SOURCE>>

\* after initialize_environment no step writes the three globals or asks again
C12_LoopStepKeepsCloudInfo ==
  (environmentInits = 1) =>
    UNCHANGED <<CLOUD_PROVIDER, INSTANCE_TYPE, DETECTION_SOURCE, environmentInits,
                metadataLookups>>

\* C12: initialize_environment is executed exactly once per process and
\* completes before the first sample and the first delivery request; from then
\* on no step of the loop changes cloud_provider, instance_type or
\* detection_source, so every envelope carries the same CloudInfo.
C12_CloudInfoFixedAtStartup ==
  []C12_InitializedBeforeLoop /\ [][C12_LoopStepKeepsCloudInfo]_vars

\* second cycle, second attempt: the body already sent carries the startup's CloudInfo
C12_Witness ==
  /\ version = V120
  /\ cycle = 2
  /\ pc = "post"
  /\ attempt = 2
  /\ Len(posts) = 1
  /\ environmentInits = 1
  /\ CloudInfoOf(posts[1].body) = <<"aws", <<"t3.micro">>, "metadata">>

\* mem is an integer nearest to total_kib KiB expressed in GiB
NearestGiB(mem, total_kib) ==
  /\ 2 * mem * KiBPerGiB - KiBPerGiB <= 2 * total_kib
  /\ 2 * total_kib <= 2 * mem * KiBPerGiB + KiBPerGiB

\* the slug the claim names for cpu logical CPUs and mem GiB
ClaimedSlug(cpu, mem) == <<"s-", ToString(cpu), "vcpu-", ToString(mem), "gb">>

\* C13: when the provider is digitalocean no metadata lookup yields an
\* instance type and initialize_environment falls back to the heuristic: with
\* psutil reporting the logical CPU count and the total memory, instance_type is
\* "s-{cpu}vcpu-{mem}gb" with mem the total memory in GiB rounded to an integer
\* and detection_source is heuristic; 4 logical CPUs and 8 GiB give
\* "s-4vcpu-8gb". (When psutil raises, the heuristic yields nothing.)
C13_DigitalOceanHeuristic ==
  (CLOUD_PROVIDER = "digitalocean" /\ environmentInits = 1) =>
    /\ metadataLookups = 0
    /\ DETECTION_SOURCE = (IF INSTANCE_TYPE = NoText THEN "unavailable" ELSE "heuristic")
    /\ (instanceLog # NoInstanceLog) =>
         /\ instanceLog.lookup = <<>>
         /\ Len(instanceLog.psutil) = 1
         /\ LET h == instanceLog.psutil[1] IN
              IF h.exc
                THEN INSTANCE_TYPE = NoText
                ELSE /\ DETECTION_SOURCE = "heuristic"
                     /\ \E mem \in 0..(h.total_kib \div KiBPerGiB + 1) :
                          /\ NearestGiB(mem, h.total_kib)
                          /\ INSTANCE_TYPE = ClaimedSlug(h.cpu, mem)
                     /\ (h.cpu = 4 /\ h.total_kib = 8 * KiBPerGiB) =>
                          INSTANCE_TYPE = <<"s-", "4", "vcpu-", "8", "gb">>
                     /\ payload # <<>> => payload["instance_type"] = INSTANCE_TYPE

\* initialize_environment has just returned on a droplet of 4 CPUs and 8 GiB
C13_Witness ==
  /\ CLOUD_PROVIDER = "digitalocean"
  /\ pc = "sample"
  /\ instanceLog.lookup = <<>>
  /\ instanceLog.psutil = <<[exc |-> FALSE, cpu |-> 4, total_kib |-> 8 * KiBPerGiB]>>
  /\ INSTANCE_TYPE = <<"s-", "4", "vcpu-", "8", "gb">>
  /\ DETECTION_SOURCE = "heuristic"

\* where the process is between the token check and the loop
StartupPcs == {"detect_cloud_provider", "detect_instance_type"}

Providers == {"aws", "gcp", "azure", "digitalocean", "unknown"}
DetectionSources == {"metadata", "heuristic", "unavailable"}

\* startup can always take its next step, whatever the probes answered, and
\* what detection leaves behind is a value, an absent field or a sentinel
C14_DetectionTotal ==
  /\ (pc = "detect_cloud_provider") =>
       /\ ENABLED Probe
       /\ Len(probeLog) < Len(ProbeOrder)
       /\ Truthy(SERVER_TOKEN)
  /\ (pc = "detect_instance_type") => ENABLED DetectInstanceType
  /\ (pc = "send_metrics") => ENABLED BuildPayload
  /\ (pc = "exited") => (exitStatus = 1 /\ ~Truthy(SERVER_TOKEN))
  /\ (environmentInits = 1) =>
       /\ CLOUD_PROVIDER \in Providers
       /\ DETECTION_SOURCE \in DetectionSources
       /\ INSTANCE_TYPE = NoText \/ TruthyText(INSTANCE_TYPE)
       /\ (CLOUD_PROVIDER = "unknown") <=> (provider_source = "unavailable")
  /\ (os_cache # NoCache) =>
       /\ os_cache[1] \in {None, "linux", "windows"}
       /\ \A i \in {2, 3} : os_cache[i] = NoText \/ os_cache[i] \in Seq(STRING)

\* every step of startup goes on with startup or enters the loop, and
\* detect_os hands its tuple to send_metrics; only the operator's interrupt
\* ends the process there
C14_DetectionStep ==
  /\ (pc = "import" /\ Truthy(SERVER_TOKEN')) => pc' \in StartupPcs \cup {"sample"}
  /\ (pc \in StartupPcs) =>
       /\ pc' \in StartupPcs \cup {"sample", "stopped"}
       /\ (pc' = "stopped") => Interrupt
       /\ (pc' = pc) => Len(probeLog') = Len(probeLog) + 1
       /\ (pc' = "sample") => environmentInits' = 1
  /\ (pc = "send_metrics") =>
       /\ pc' \in {"post", "stopped"}
       /\ cycleError' = cycleError
       /\ (pc' = "post") => os_cache' # NoCache \/ ~HasOsDetection(version)

NearestHundredth(s, x) == 10 * s - 5 <= x /\ x <= 10 * s + 5

Gauges == {"cpu", "memory", "disk"}

\* C15: for every CPU, memory and disk reading within [0, 100] the cpu, memory
\* and disk fields of the sample are the reading rounded to 2 decimal places
\* and lie within [0, 100].
C15_RoundedWithinRange ==
  (sample # <<>>) =>
    \A g \in Gauges :
      (readingSeen[g] \in 0..FullScale) =>
        /\ NearestHundredth(sample[g], readingSeen[g])
        /\ sample[g] \in 0..(FullScale \div 10)

\* 99.996 is rounded up to 100.00, 0.004 down to 0.00
C15_Witness ==
  /\ sample # <<>>
  /\ readingSeen.cpu = FullScale - 4
  /\ sample.cpu = FullScale \div 10
  /\ readingSeen.memory = 4
  /\ sample.memory = 0

\* the instance-type request failed: it raised, or its response is not a 200
FailedLookup(log) ==
  /\ Len(log.lookup) = 1
  /\ log.lookup[1].exc # None \/ log.lookup[1].status # 200

\* C16: detection_source follows the instance-type outcome (metadata if the
\* lookup yielded a value, heuristic if it did not and the heuristic did,
\* unavailable otherwise), and for aws, gcp and azure a failed lookup, an
\* error response (non-200) included, yields no instance type: instance_type
\* absent and detection_source unavailable, never a value taken from the
\* failed response.
C16_SourceFollowsOutcome ==
  (environmentInits = 1 /\ instanceLog # NoInstanceLog) =>
    /\ (DETECTION_SOURCE = "metadata") <=>
         (instanceLog.lookup # <<>> /\ instanceLog.psutil = <<>> /\ INSTANCE_TYPE # NoText)
    /\ (DETECTION_SOURCE = "heuristic") <=>
         (instanceLog.psutil # <<>> /\ INSTANCE_TYPE # NoText)
    /\ (DETECTION_SOURCE = "unavailable") <=> (INSTANCE_TYPE = NoText)
    /\ (CLOUD_PROVIDER \in {"aws", "gcp", "azure"} /\ FailedLookup(instanceLog)) =>
         /\ INSTANCE_TYPE = NoText
         /\ DETECTION_SOURCE = "unavailable"

\* the value a release file gives a key (each key stands at most once), NoText without the key
ValueOfKey(v, lines, key) ==
  LET at == {i \in DOMAIN lines : lines[i].key = key}
  IN IF at = {} THEN NoText ELSE Unquote(v, lines[CHOOSE i \in at : TRUE].raw)

HasKey(lines, key) == \E i \in DOMAIN lines : lines[i].key = key

\* the first non-empty value in the precedence PRETTY_NAME, NAME, ID
ClaimedName(v, lines) ==
  IF TruthyText(ValueOfKey(v, lines, "PRETTY_NAME")) THEN ValueOfKey(v, lines, "PRETTY_NAME")
  ELSE IF TruthyText(ValueOfKey(v, lines, "NAME")) THEN ValueOfKey(v, lines, "NAME")
  ELSE IF TruthyText(ValueOfKey(v, lines, "ID")) THEN ValueOfKey(v, lines, "ID")
  ELSE NoText

\* detect_os has just read a Linux release file
ReadReleaseFile ==
  /\ hostSeen # <<>>
  /\ hostSeen.platform = "linux"
  /\ hostSeen.readable
  /\ os_cache # NoCache

\* C17: on Linux os_name is the first non-empty value in the precedence
\* PRETTY_NAME, NAME, ID of the release file, in every order of the lines and
\* for every subset of them present or empty; a name is produced whenever one
\* of the three keys is non-empty.
C17_NamePrecedence ==
  ReadReleaseFile =>
    LET claimed == ClaimedName(version, hostSeen.lines)
    IN IF TruthyText(claimed)
         THEN os_cache[2] = claimed
         ELSE ~TruthyText(os_cache[2])

\* the first digits.digits of the VERSION line, NoText without the line or without a match
VersionDerived(v, lines) == ReSearchVersion(ValueOfKey(v, lines, "VERSION"))

\* C18: on Linux (v.1.1.0) os_version is the value of VERSION_ID when that key
\* is present and otherwise the first digits.digits found in VERSION, in every
\* order of the two lines; a VERSION_ID value is never replaced by the
\* VERSION-derived one, which is used only when VERSION_ID is absent.
C18_VersionPrecedence ==
  (ReadReleaseFile /\ version = V110a) =>
    IF HasKey(hostSeen.lines, "VERSION_ID")
      THEN os_cache[3] = ValueOfKey(version, hostSeen.lines, "VERSION_ID")
      ELSE os_cache[3] = VersionDerived(version, hostSeen.lines)

\* C19: when the detected provider is unknown no instance-type metadata request
\* is issued, instance_type stays absent and detection_source is unavailable;
\* and every CloudInfo initialize_environment produces has instance_type present
\* exactly when detection_source is metadata or heuristic, heuristic only with
\* provider digitalocean, and unavailable whenever the provider is unknown.
C19_CloudInfoWellFormed ==
  (environmentInits = 1) =>
    /\ (CLOUD_PROVIDER = "unknown") =>
         /\ metadataLookups = 0
         /\ instanceLog.lookup = <<>>
         /\ INSTANCE_TYPE = NoText
         /\ DETECTION_SOURCE = "unavailable"
    /\ TruthyText(INSTANCE_TYPE) <=> (DETECTION_SOURCE \in {"metadata", "heuristic"})
    /\ (DETECTION_SOURCE = "heuristic") => (CLOUD_PROVIDER = "digitalocean")
    /\ \A i \in 1..Len(posts) :
         LET body == posts[i].body IN
           /\ (body["cloud_provider"] = "unknown") =>
                (body["instance_type"] = NoText /\ body["cloud_detection_source"] = "unavailable")
           /\ (body["cloud_detection_source"] = "heuristic") =>
                (body["cloud_provider"] = "digitalocean")

\* no probe matched; the heuristic was asked with 4 CPUs and 8 GiB and yielded nothing
C19_Witness ==
  /\ pc = "sample"
  /\ environmentInits = 1
  /\ CLOUD_PROVIDER = "unknown"
  /\ metadataLookups = 0
  /\ instanceLog.lookup = <<>>
  /\ instanceLog.psutil = <<[exc |-> FALSE, cpu |-> 4, total_kib |-> 8 * KiBPerGiB]>>
  /\ INSTANCE_TYPE = NoText
  /\ DETECTION_SOURCE = "unavailable"

\* where a cycle is, and what of it exists there: the sample before the
\* envelope, the envelope before the first request, the requests one by one,
\* the interval sleep after the send has resolved
C20_OneThingAtATime ==
  /\ (pc = "sample") =>
       /\ sample = <<>> /\ payload = <<>> /\ posts = <<>>
       /\ outcome = None /\ ~cycleError
       /\ sleeping = 0
       /\ intervalSleeps = cycle - 1
  /\ (pc = "send_metrics") => (sample # <<>> /\ payload = <<>> /\ posts = <<>>)
  /\ (pc = "post") =>
       /\ payload # <<>>
       /\ Len(posts) = attempt - 1
       /\ outcome = None
       /\ sleeping = 0
  /\ (pc = "retry_delay") =>
       /\ Len(posts) = attempt
       /\ outcome = None
       /\ sleeping = RETRY_DELAY
  /\ (pc = "interval_sleep") =>
       /\ outcome # None \/ cycleError
       /\ sleeping = INTERVAL
       /\ intervalSleeps = cycle
  /\ \A i \in 1..Len(posts) :
       /\ posts[i].cycle = cycle
       /\ posts[i].tick = cycle
       /\ sample # <<>> /\ sample.tick = cycle

\* the steps of a cycle follow one another in the one order
C20_CycleStep ==
  /\ (pc = "sample") => pc' \in {"send_metrics", "interval_sleep", "stopped"}
  /\ (pc = "send_metrics") => pc' \in {"post", "stopped"}
  /\ (pc = "post") => pc' \in {"retry_delay", "interval_sleep", "stopped"}
  /\ (pc = "retry_delay") => pc' \in {"post", "interval_sleep", "stopped"}
  /\ (pc = "interval_sleep") => pc' \in {"sample", "stopped"}
  /\ (Running(pc) /\ cycle' # cycle) =>
       /\ pc = "interval_sleep"
       /\ pc' = "sample"
       /\ cycle' = cycle + 1
  /\ (posts' # posts /\ posts' # <<>>) =>
       /\ pc = "post"
       /\ posts' = Append(posts, posts'[Len(posts')])
  /\ (Running(pc) /\ sample' # sample /\ sample' # <<>>) => (pc = "sample" /\ sample = <<>>)

\* C20: cycles and delivery attempts never overlap: within a cycle the order is
\* sample, envelope, delivery attempts one at a time, interval sleep; a request
\* is sent only after the one before it was answered; the next cycle's sampling
\* begins only after this cycle's send has resolved and its interval sleep has
\* elapsed.
C20_NoOverlap == []C20_OneThingAtATime /\ [][C20_CycleStep]_vars

\* third attempt of the second cycle: two requests answered, one interval sleep elapsed
C20_Witness ==
  /\ pc = "post"
  /\ cycle = 2
  /\ attempt = 3
  /\ Len(posts) = 2
  /\ intervalSleeps = 1

\* the OS tuple send_metrics works with
CachedOsInfo == IF HasOsDetection(version) THEN os_cache ELSE <<None, NoText, NoText>>

\* body holds exactly the cycle's sample, the cached OSInfo and the CloudInfo
EnvelopeOf(body) ==
  /\ \A g \in Gauges : body[g] = sample[g] /\ NearestHundredth(body[g], readingSeen[g])
  /\ body["status"] = sample.status
  /\ \A i \in 1..3 :
       LET k == <<"os_type", "os_name", "os_version">>[i] IN
         (k \in DOMAIN body) => body[k] = CachedOsInfo[i]
  /\ HasCloudDetection(version) =>
       CloudInfoOf(body) = <<CLOUD_PROVIDER, INSTANCE_TYPE, DETECTION_SOURCE>>

\* every request of the cycle carried the one envelope of the cycle
C21_OneEnvelopePerCycle ==
  /\ \A i \in 1..Len(posts) :
       /\ posts[i].body = payload
       /\ posts[i].tick = cycle
       /\ posts[i].cycle = cycle
       /\ sample.tick = cycle
       /\ EnvelopeOf(posts[i].body)
  /\ (pc \in {"post", "retry_delay"}) => (payload # <<>> /\ EnvelopeOf(payload))
  /\ (pc = "sample") => (payload = <<>> /\ sample = <<>> /\ posts = <<>>)

\* between the attempts nothing is sampled, detected or rebuilt
C21_AttemptStep ==
  (pc \in {"post", "retry_delay"}) =>
    /\ UNCHANGED <<sample, payload, readingSeen, os_cache, osDetections, hostSeen,
                   CLOUD_PROVIDER, INSTANCE_TYPE, DETECTION_SOURCE, environmentInits,
                   metadataLookups, cycle>>
    /\ SubSeq(posts', 1, Len(posts)) = posts

\* C21: the envelope is built once per cycle: every attempt of one
\* send_metrics call transmits the identical payload (the sample taken at the
\* start of the cycle, the cached OSInfo and CloudInfo); between attempts
\* nothing is re-sampled and no detection is re-run, and no envelope or sample
\* of one cycle is transmitted in a later cycle.
C21_EnvelopeBuiltOnce == []C21_OneEnvelopePerCycle /\ [][C21_AttemptStep]_vars

\* second cycle, two failed attempts behind: both carried this cycle's envelope
C21_Witness ==
  /\ cycle = 2
  /\ pc = "retry_delay"
  /\ Len(posts) = 2
  /\ posts[1].body = posts[2].body
  /\ posts[2].body = payload
  /\ posts[1].tick = 2
  /\ osDetections = 1

\* a KeyboardInterrupt was raised inside a request of the startup detection
InterruptedProbe ==
  \/ \E i \in 1..Len(probeLog) : probeLog[i].response.exc = "KeyboardInterrupt"
  \/ \E i \in 1..Len(instanceLog.lookup) : instanceLog.lookup[i].exc = "KeyboardInterrupt"

\* C22: an operator interrupt (KeyboardInterrupt) that arrives while a
\* cloud-provider or instance-type metadata request of startup is in progress
\* stops the agent; it is never taken for a non-match after which detection
\* goes on to the next probe and the agent enters the loop.
C22_InterruptedProbeStops == InterruptedProbe => ~Alive(pc)

\* the environment variable SERVER_TOKEN is set to a non-empty value
EnvTokenSet == environ \notin {None, ""}

\* the module-level assignment of SERVER_TOKEN has been executed (a process
\* stopped without a token was interrupted before it)
TokenResolved == pc # "import" /\ (pc = "stopped" => SERVER_TOKEN # None)

\* C23: token resolution prefers the environment (v1.1.0, v1.2.0): a non-empty
\* SERVER_TOKEN environment variable is the token of the Authorization header
\* whatever config.json holds; the api_key of config.json is used only when the
\* environment value is missing or empty; an unreadable or malformed
\* config.json counts as no token.
C23_EnvironmentPreferred ==
  (HasConfigToken(version) /\ TokenResolved) =>
    /\ EnvTokenSet =>
         /\ SERVER_TOKEN = environ
         /\ \A i \in 1..Len(posts) : posts[i].authorization = environ
    /\ (~EnvTokenSet /\ configFile = "key") =>
         /\ SERVER_TOKEN = "config-token"
         /\ \A i \in 1..Len(posts) : posts[i].authorization = "config-token"
    /\ (~EnvTokenSet /\ configFile \in {"missing", "malformed"}) =>
         /\ pc = "exited"
         /\ exitStatus = 1
         /\ posts = <<>>
    /\ (SERVER_TOKEN = "config-token") => ~EnvTokenSet

\* both sources hold a token: the request carries the environment's
C23_Witness ==
  /\ version = V120
  /\ environ = "env-token"
  /\ configFile = "key"
  /\ Len(posts) = 1
  /\ posts[1].authorization = "env-token"

====
